---------------------------- MODULE Spec2Model ----------------------------
(***************************************************************************)
(* A model of designator.py: one reconciliation pass of Designator/main()  *)
(* against a port/network snapshot and a DNS service.                      *)
(*                                                                         *)
(* Python strings are sequences of one-character strings, so that split,   *)
(* join, replace and re.match are computed the way the code computes them. *)
(***************************************************************************)
EXTENDS Integers, Sequences, FiniteSets, TLC

(***************************************************************************)
(* Bounds of the model.                                                    *)
(***************************************************************************)
\* how many ports the control-plane listing holds at most
MaxPorts == 2
\* how many recordsets the DNS service holds at most when the first pass starts
MaxRecordsets == 2
\* how many digits an octet of an address given to _arpa has at most
MaxOctetLen == 2

(***************************************************************************)
(* Python's str and list operations, as the code uses them.                *)
(***************************************************************************)
Dot == <<".">>

\* the value a missing key / attribute is modelled by
NoAttr == <<"<absent>">>

\* Python's None
None == <<"<None>">>

\* list.reverse()
RECURSIVE Reverse(_)
Reverse(s) == IF s = <<>> THEN <<>> ELSE Reverse(Tail(s)) \o <<Head(s)>>

\* list.pop() as the code uses it on a list it goes on using: the list without its last element
DropLast(s) == SubSeq(s, 1, Len(s) - 1)

\* x in list
In(x, s) == \E i \in 1..Len(s) : s[i] = x

\* s[a:b] for 0 <= a <= b (Python clamps b to len(s))
Slice(s, a, b) == SubSeq(s, a + 1, IF b < Len(s) THEN b ELSE Len(s))

\* str.split('.'): the pieces between the dots, empty pieces included
RECURSIVE SplitFrom(_, _, _)
SplitFrom(s, i, cur) ==
    IF i > Len(s) THEN <<cur>>
    ELSE IF s[i] = "." THEN <<cur>> \o SplitFrom(s, i + 1, <<>>)
    ELSE SplitFrom(s, i + 1, Append(cur, s[i]))

Split(s) == SplitFrom(s, 1, <<>>)

\* '.'.join(parts)
RECURSIVE Join(_)
Join(parts) ==
    IF parts = <<>> THEN <<>>
    ELSE IF Len(parts) = 1 THEN parts[1]
    ELSE parts[1] \o Dot \o Join(Tail(parts))

\* whether old occurs in s at position i (1-based)
OccursAt(s, old, i) ==
    /\ i + Len(old) - 1 <= Len(s)
    /\ \A k \in 1..Len(old) : s[i + k - 1] = old[k]

\* str.replace(old, '', 1): s with the FIRST occurrence of old removed
ReplaceFirst(s, old) ==
    LET hits == {i \in 1..Len(s) : OccursAt(s, old, i)}
    IN  IF hits = {} THEN s
        ELSE LET i == CHOOSE j \in hits : \A k \in hits : j <= k
             IN  SubSeq(s, 1, i - 1) \o SubSeq(s, i + Len(old), Len(s))

\* re.match(pattern, s) for a pattern over letters, digits, '-' and '.':
\* anchored at the start of s only, '.' matches any character
ReMatch(pattern, s) ==
    /\ Len(pattern) <= Len(s)
    /\ \A k \in 1..Len(pattern) : pattern[k] = "." \/ pattern[k] = s[k]

(***************************************************************************)
(* Designator's helper functions.                                          *)
(***************************************************************************)
\* _arpa(fixed_ip, domain)
Arpa(fixed_ip, domain) ==
    LET parts == Split(fixed_ip.ip_address)
        kept  == IF domain THEN DropLast(parts) ELSE parts
    IN  Join(Reverse(kept)) \o <<".","i","n","-","a","d","d","r",".","a","r","p","a",".">>

\* _arpa_domain(fixed_ip)
ArpaDomain(fixed_ip) == Arpa(fixed_ip, TRUE)

\* _arpa_to_ip as it would be without parts.reverse()
ArpaToIp_Unreversed(arpa) == Join(Slice(Split(arpa), 0, 4))

\* _arpa_to_ip(arpa)
ArpaToIp(arpa) == Join(Slice(Reverse(Split(arpa)), 3, 7))

\* _domain(fixed_ip), given self.subnet_zone_lookup
Domain(lookup, fixed_ip) ==
    IF fixed_ip.subnet_id \in DOMAIN lookup THEN lookup[fixed_ip.subnet_id] ELSE None

\* _fqdn(port, fixed_ip)
Fqdn(lookup, port, fixed_ip) == port.dns_name \o Dot \o Domain(lookup, fixed_ip)

(***************************************************************************)
(* The inputs: what the control plane and the DNS service may hold when    *)
(* the first pass starts.                                                  *)
(***************************************************************************)
Empty == <<>>
Host1 == <<"h","o","s","t","1">>
Ghost == <<"g","h","o","s","t">>
WName == <<"w",".","e","x","a","m","p","l","e",".","c","o","m">>
ExampleCom == <<"e","x","a","m","p","l","e",".","c","o","m",".">>
ExampleOrg == <<"e","x","a","m","p","l","e",".","o","r","g",".">>
ArpaZone == <<"0",".","0",".","1","0",".","i","n","-","a","d","d","r",".","a","r","p","a",".">>
Host1Fqdn == <<"h","o","s","t","1",".","e","x","a","m","p","l","e",".","c","o","m",".">>
Host10Fqdn == <<"h","o","s","t","1","0",".","e","x","a","m","p","l","e",".","c","o","m",".">>
GhostFqdn == <<"g","h","o","s","t",".","e","x","a","m","p","l","e",".","c","o","m",".">>
WFqdn == <<"w",".","e","x","a","m","p","l","e",".","c","o","m",".","e","x","a","m","p","l","e",".","c","o","m",".">>
Ns1Fqdn == <<"n","s","1",".","e","x","a","m","p","l","e",".","c","o","m",".">>
Ptr5 == <<"5",".","0",".","0",".","1","0",".","i","n","-","a","d","d","r",".","a","r","p","a",".">>
Ptr9 == <<"9",".","0",".","0",".","1","0",".","i","n","-","a","d","d","r",".","a","r","p","a",".">>
Ip5 == <<"1","0",".","0",".","0",".","5">>
Ip6 == <<"1","0",".","0",".","0",".","6">>
Ip7 == <<"1","0",".","0",".","0",".","7">>
Ip8 == <<"1","0",".","0",".","0",".","8">>
Ip9 == <<"1","0",".","0",".","0",".","9">>

FixedIp(ip, subnet) == [ip_address |-> ip, subnet_id |-> subnet]

\* the ports cloud.network.ports() may list; subnet s1 belongs to the network
\* with dns_domain example.com., s2 to the second network
CandPorts ==
    { [id |-> "pA", dns_name |-> Host1,  fixed_ips |-> <<FixedIp(Ip5, "s1")>>],
      [id |-> "pB", dns_name |-> Host1,  fixed_ips |-> <<FixedIp(Ip6, "s1"), FixedIp(Ip9, "s2")>>],
      [id |-> "pC", dns_name |-> Empty,  fixed_ips |-> <<FixedIp(Ip9, "s1")>>],
      [id |-> "pD", dns_name |-> Ghost,  fixed_ips |-> <<FixedIp(Ip9, "s2")>>],
      [id |-> "pW", dns_name |-> WName,  fixed_ips |-> <<FixedIp(Ip8, "s1")>>],
      [id |-> "pE", dns_name |-> NoAttr, fixed_ips |-> <<FixedIp(Ip7, "s1")>>] }

\* what the second network's dns_domain may be: empty, a domain no zone
\* serves, or not there at all (the dns extension is off)
CandDomain2 == {Empty, ExampleOrg, NoAttr}

Networks(d2) ==
    << [id |-> "n1", dns_domain |-> ExampleCom, subnets |-> <<"s1">>],
       [id |-> "n2", dns_domain |-> d2,         subnets |-> <<"s2">>] >>

ZoneFwd == [id |-> "z1", name |-> ExampleCom]
ZoneRev == [id |-> "z2", name |-> ArpaZone]

\* the zones cloud.dns.zones() may list
CandZones == { <<ZoneFwd, ZoneRev>>, <<ZoneFwd>>, <<ZoneRev>>, <<>> }

Rs(id, zone, type, name, records) ==
    [id |-> id, zone_id |-> zone.id, zone_name |-> zone.name,
     type |-> type, name |-> name, records |-> records]

\* the recordsets the DNS service may hold at the start
CandRecordsets ==
    { Rs(1, ZoneFwd, "A",   Host1Fqdn, <<Ip5>>),
      Rs(2, ZoneFwd, "A",   Host1Fqdn, <<Ip9>>),
      Rs(3, ZoneFwd, "A",   Host1Fqdn, <<Ip5, Ip9>>),
      Rs(4, ZoneFwd, "A",   GhostFqdn, <<Ip9>>),
      Rs(5, ZoneFwd, "A",   GhostFqdn, <<Ip9, Ip7>>),
      Rs(6, ZoneFwd, "A",   WFqdn,     <<Ip8>>),
      Rs(7, ZoneRev, "PTR", Ptr5,      <<Host1Fqdn>>),
      Rs(8, ZoneRev, "PTR", Ptr5,      <<Host10Fqdn>>),
      Rs(9, ZoneRev, "PTR", Ptr9,      <<GhostFqdn>>),
      Rs(10, ZoneFwd, "NS", ExampleCom, <<Ns1Fqdn>>) }

\* the id the DNS service gives the first recordset a pass creates
FirstNewId == Cardinality(CandRecordsets) + 1

\* the lists of at most n different elements of S
ListsUpTo(S, n) ==
    UNION { {f \in [1..k -> S] : \A a, b \in 1..k : a # b => f[a] # f[b]} : k \in 0..n }

\* a port listing the network service can give: no address is held twice on a subnet
PortsOk(ps) ==
    \A a, b \in 1..Len(ps) :
        \A x \in 1..Len(ps[a].fixed_ips), y \in 1..Len(ps[b].fixed_ips) :
            (a # b \/ x # y) => ps[a].fixed_ips[x] # ps[b].fixed_ips[y]

\* a DNS content the DNS service can hold: every recordset lies in a listed
\* zone, and a zone holds one recordset per name and type
DnsOk(zs, rs) ==
    /\ \A i \in 1..Len(rs) : \E z \in 1..Len(zs) : zs[z].id = rs[i].zone_id
    /\ \A a, b \in 1..Len(rs) :
          a # b => ~(/\ rs[a].zone_id = rs[b].zone_id
                     /\ rs[a].name = rs[b].name
                     /\ rs[a].type = rs[b].type)

(***************************************************************************)
(* The state.                                                              *)
(***************************************************************************)
VARIABLES
    cloud_ports,         \* what cloud.network.ports() lists
    cloud_networks,      \* what cloud.list_networks() lists
    dns_zones,           \* what cloud.dns.zones() lists
    dns_recordsets,      \* the recordsets the DNS service holds, in listing order
    next_id,             \* the id of the next recordset the DNS service creates
    ports,               \* self.ports, in dict order
    zones,               \* self.zones, in dict order
    recordsets,          \* self.recordsets: <<[zone_name, rsets]>> in dict order
    subnet_zone_lookup,  \* self.subnet_zone_lookup: subnet id -> dns_domain
    pc,                  \* where main() is
    exc,                 \* the exception main() ended with, "" if none
    run,                 \* 1 in the first invocation of main(), 2 in the second
    k,                   \* prune: the index of the next (recordset, record) pair
    j,                   \* fill: the index of the next (port, fixed_ip) pair
    log,                 \* history: staleness checks and DNS client calls, in order
    arg_fixed_ip,        \* the fixed_ip a helper function is called with on its own, None if none
    ret_arpa,            \* what _arpa(arg_fixed_ip) returned, None before the call
    ret_ip               \* what _arpa_to_ip(ret_arpa) returned, None before the call

vars == <<cloud_ports, cloud_networks, dns_zones, dns_recordsets, next_id,
          ports, zones, recordsets, subnet_zone_lookup, pc, exc, run, k, j, log,
          arg_fixed_ip, ret_arpa, ret_ip>>

cloud == <<cloud_ports, cloud_networks, dns_zones>>
self  == <<ports, zones, recordsets, subnet_zone_lookup>>
helper_call == <<arg_fixed_ip, ret_arpa, ret_ip>>

NoLookup == [s \in {} |-> Empty]

Init ==
    /\ cloud_ports \in {ps \in ListsUpTo(CandPorts, MaxPorts) : PortsOk(ps)}
    /\ \E d2 \in CandDomain2 : cloud_networks = Networks(d2)
    /\ dns_zones \in CandZones
    /\ dns_recordsets \in {rs \in ListsUpTo(CandRecordsets, MaxRecordsets) : DnsOk(dns_zones, rs)}
    /\ next_id = FirstNewId
    /\ ports = <<>>
    /\ zones = <<>>
    /\ recordsets = <<>>
    /\ subnet_zone_lookup = NoLookup
    /\ pc = "start"
    /\ exc = ""
    /\ run = 1
    /\ k = 1
    /\ j = 1
    /\ log = <<>>
    /\ arg_fixed_ip = None
    /\ ret_arpa = None
    /\ ret_ip = None

(***************************************************************************)
(* The DNS service, as the code calls it.                                  *)
(***************************************************************************)
\* cloud.dns.recordsets(zone_id)
ListRecordsets(dns, zone_id) == SelectSeq(dns, LAMBDA r : r.zone_id = zone_id)

\* whether recordset (zone_id, id) is there
Present(dns, zone_id, id) ==
    \E i \in 1..Len(dns) : dns[i].zone_id = zone_id /\ dns[i].id = id

\* a successful delete_recordset(zone_id, id)
Deleted(dns, zone_id, id) ==
    SelectSeq(dns, LAMBDA r : ~(r.zone_id = zone_id /\ r.id = id))

\* create_recordset is refused with a Conflict when the zone already holds a
\* recordset of that name and type
Duplicate(dns, zone, name, type) ==
    \E i \in 1..Len(dns) :
        dns[i].zone_id = zone.id /\ dns[i].name = name /\ dns[i].type = type

\* a successful create_recordset(zone, name, type, records)
Created(dns, id, zone, name, type, records) ==
    Append(dns, Rs(id, zone, type, name, records))

\* how a delete_recordset call can end: it succeeds (for a recordset that is
\* gone the client may report nothing), or it raises a client error
DeleteOutcomes == {"ok", "error"}

\* how a create_recordset call can end: a Conflict for a duplicate, else
\* success; or any other client error
CreateOutcomes(dns, zone, name, type) ==
    (IF Duplicate(dns, zone, name, type) THEN {"Conflict"} ELSE {"ok"}) \cup {"error"}

(***************************************************************************)
(* Designator.__init__ and what it calls.                                  *)
(***************************************************************************)
\* the dict comprehension without its filter
EligiblePorts_NoFilter(listed) == listed

\* the dict comprehension of __init__: the ports whose dns_name is not ''
EligiblePorts(listed) == SelectSeq(listed, LAMBDA p : p.dns_name # Empty)

\* get_recordsets() as it would be without its type filter
GetRecordsets_AllTypes(zs, dns) ==
    [i \in 1..Len(zs) |->
        [zone_name |-> zs[i].name, rsets |-> ListRecordsets(dns, zs[i].id)]]

\* get_recordsets(): per zone, its recordsets of type A and PTR
GetRecordsets(zs, dns) ==
    [i \in 1..Len(zs) |->
        [zone_name |-> zs[i].name,
         rsets |-> SelectSeq(ListRecordsets(dns, zs[i].id),
                             LAMBDA x : x.type \in {"A", "PTR"})]]

\* get_subnet_zones(): each such subnet points to the dns_domain of the last
\* listed network that holds it
GetSubnetZones(nets) ==
    [s \in {x \in {"s1", "s2"} :
               \E n \in 1..Len(nets) :
                   nets[n].dns_domain # Empty /\ In(x, nets[n].subnets)} |->
        LET holders == {n \in 1..Len(nets) :
                           nets[n].dns_domain # Empty /\ In(s, nets[n].subnets)}
            last == CHOOSE n \in holders : \A m \in holders : m <= n
        IN  nets[last].dns_domain]

\* 'x' in self.recordsets
HasZone(rsets, zone_name) == \E i \in 1..Len(rsets) : rsets[i].zone_name = zone_name

\* self.recordsets[zone_name]
ZoneRecordsets(rsets, zone_name) ==
    rsets[CHOOSE i \in 1..Len(rsets) : rsets[i].zone_name = zone_name].rsets

(***************************************************************************)
(* The predicates of the differ.                                           *)
(***************************************************************************)
\* record_port_exists as it would be if fixed IPs on unmapped subnets were skipped
RecordPortExists_MappedOnly(ps, recordset, record) ==
    \/ /\ recordset.type = "A"
       /\ LET dns_name == ReplaceFirst(recordset.name, Dot \o recordset.zone_name)
          IN  \E p \in 1..Len(ps) :
                  /\ dns_name = ps[p].dns_name
                  /\ \E f \in 1..Len(ps[p].fixed_ips) :
                         /\ ps[p].fixed_ips[f].subnet_id \in DOMAIN subnet_zone_lookup
                         /\ record = ps[p].fixed_ips[f].ip_address
    \/ /\ recordset.type = "PTR"
       /\ LET record_ip == ArpaToIp(recordset.name)
          IN  \E p \in 1..Len(ps) :
                  \E f \in 1..Len(ps[p].fixed_ips) :
                      /\ ps[p].fixed_ips[f].subnet_id \in DOMAIN subnet_zone_lookup
                      /\ record_ip = ps[p].fixed_ips[f].ip_address
                      /\ ReMatch(ps[p].dns_name, record)

\* record_port_exists(recordset, record), given self.ports
RecordPortExists(ps, recordset, record) ==
    \/ /\ recordset.type = "A"
       /\ LET dns_name == ReplaceFirst(recordset.name, Dot \o recordset.zone_name)
          IN  \E p \in 1..Len(ps) :
                  /\ dns_name = ps[p].dns_name
                  /\ \E f \in 1..Len(ps[p].fixed_ips) :
                         record = ps[p].fixed_ips[f].ip_address
    \/ /\ recordset.type = "PTR"
       /\ LET record_ip == ArpaToIp(recordset.name)
          IN  \E p \in 1..Len(ps) :
                  \E f \in 1..Len(ps[p].fixed_ips) :
                      /\ record_ip = ps[p].fixed_ips[f].ip_address
                      /\ ReMatch(ps[p].dns_name, record)

\* forward_record_exists(port, fixed_ip) ends with a KeyError when
\* self.recordsets has no entry for the domain of the fixed_ip
ForwardRaisesKeyError(rsets, lookup, fixed_ip) ==
    /\ Domain(lookup, fixed_ip) # None
    /\ ~HasZone(rsets, Domain(lookup, fixed_ip))

\* forward_record_exists as it would be if it asked the DNS service anew
\* instead of reading self.recordsets
ForwardRecordExists_Live(rsets, lookup, port, fixed_ip) ==
    LET dns_domain == Domain(lookup, fixed_ip)
    IN  IF dns_domain = None THEN TRUE
        ELSE LET fqdn == Fqdn(lookup, port, fixed_ip)
                 zrs  == ZoneRecordsets(GetRecordsets(dns_zones, dns_recordsets), dns_domain)
             IN  \E i \in 1..Len(zrs) :
                     /\ zrs[i].type = "A"
                     /\ zrs[i].name = fqdn
                     /\ In(fixed_ip.ip_address, zrs[i].records)

\* forward_record_exists(port, fixed_ip), where it returns
ForwardRecordExists(rsets, lookup, port, fixed_ip) ==
    LET dns_domain == Domain(lookup, fixed_ip)
    IN  IF dns_domain = None THEN TRUE
        ELSE LET fqdn == Fqdn(lookup, port, fixed_ip)
                 zrs  == ZoneRecordsets(rsets, dns_domain)
             IN  \E i \in 1..Len(zrs) :
                     /\ zrs[i].type = "A"
                     /\ zrs[i].name = fqdn
                     /\ In(fixed_ip.ip_address, zrs[i].records)

\* reverse_record_exists(port, fixed_ip)
ReverseRecordExists(rsets, lookup, port, fixed_ip) ==
    LET arpa_domain == ArpaDomain(fixed_ip)
        fqdn == Fqdn(lookup, port, fixed_ip)
    IN  IF ~HasZone(rsets, arpa_domain) THEN TRUE
        ELSE LET zrs == ZoneRecordsets(rsets, arpa_domain)
             IN  \E i \in 1..Len(zrs) :
                     /\ zrs[i].type = "PTR"
                     /\ zrs[i].name = Arpa(fixed_ip, FALSE)
                     /\ In(fqdn, zrs[i].records)

\* [z for _,z in self.zones.items() if z['name'] == name]
ZonesNamed(zs, name) == SelectSeq(zs, LAMBDA z : z.name = name)

(***************************************************************************)
(* The two loops of main(), flattened in iteration order.                  *)
(***************************************************************************)
RECURSIVE Flatten(_)
Flatten(ss) == IF ss = <<>> THEN <<>> ELSE Head(ss) \o Flatten(Tail(ss))

\* the (recordset, record) pairs of the prune loop
PruneWork(rsets) ==
    Flatten([z \in 1..Len(rsets) |->
        Flatten([r \in 1..Len(rsets[z].rsets) |->
            [v \in 1..Len(rsets[z].rsets[r].records) |->
                [recordset |-> rsets[z].rsets[r],
                 record |-> rsets[z].rsets[r].records[v]]]])])

\* the (port, fixed_ip) pairs of the fill loop
FillWork(ps) ==
    Flatten([p \in 1..Len(ps) |->
        [f \in 1..Len(ps[p].fixed_ips) |->
            [port |-> ps[p], fixed_ip |-> ps[p].fixed_ips[f]]]])

(***************************************************************************)
(* The history: every staleness check and every DNS client call.           *)
(***************************************************************************)
\* a staleness check of main()'s prune loop; result is "live" or "stale"
CheckEntry(r, recordset, record, result) ==
    [run |-> r, op |-> "check", zone_id |-> recordset.zone_id,
     zone_name |-> recordset.zone_name, rs |-> recordset.id,
     type |-> recordset.type, name |-> recordset.name, records |-> recordset.records,
     value |-> record, result |-> result, port |-> "", item |-> 0]

\* a delete_recordset(zone_id, id) call, made because `record` was judged stale
DeleteEntry(r, recordset, record, result) ==
    [run |-> r, op |-> "delete", zone_id |-> recordset.zone_id,
     zone_name |-> recordset.zone_name, rs |-> recordset.id,
     type |-> recordset.type, name |-> recordset.name, records |-> recordset.records,
     value |-> record, result |-> result, port |-> "", item |-> 0]

\* a create_recordset(zone, name, type, records) call made for the item-th
\* (port, fixed_ip) pair of the fill loop
CreateEntry(r, zone, type, name, records, result, port, item) ==
    [run |-> r, op |-> "create", zone_id |-> zone.id,
     zone_name |-> zone.name, rs |-> 0,
     type |-> type, name |-> name, records |-> records,
     value |-> records[1], result |-> result, port |-> port.id, item |-> item]

(***************************************************************************)
(* main().                                                                 *)
(***************************************************************************)
\* where main() goes on once the fill loop stands at pair jj
AtFill(ps, jj) == IF jj <= Len(FillWork(ps)) THEN "fill_A" ELSE "done"

\* where main() goes on once the prune loop stands at pair kk
AtPrune(rsets, ps, kk) ==
    IF kk <= Len(PruneWork(rsets)) THEN "prune" ELSE AtFill(ps, 1)

\* an exception nothing catches ends main()
Raise(e) == pc' = "raised" /\ exc' = e

\* Designator() as it would be without its two RuntimeError checks
Load_NoConfigCheck ==
    /\ pc = "start"
    /\ ports' = EligiblePorts(cloud_ports)
    /\ zones' = dns_zones
    /\ recordsets' = GetRecordsets(dns_zones, dns_recordsets)
    /\ subnet_zone_lookup' = GetSubnetZones(cloud_networks)
    /\ pc' = AtPrune(recordsets', ports', 1)
    /\ UNCHANGED <<helper_call, cloud, dns_recordsets, next_id, exc, run, k, j, log>>

\* designator = Designator(): the snapshot is read, nothing is changed
Load ==
    /\ pc = "start"
    /\ IF \E i \in 1..Len(cloud_ports) : cloud_ports[i].dns_name = NoAttr
       THEN /\ Raise("RuntimeError")
            /\ UNCHANGED self
       ELSE /\ ports' = EligiblePorts(cloud_ports)
            /\ zones' = dns_zones
            /\ recordsets' = GetRecordsets(dns_zones, dns_recordsets)
            /\ IF \E n \in 1..Len(cloud_networks) : cloud_networks[n].dns_domain = NoAttr
               THEN /\ Raise("RuntimeError")
                    /\ UNCHANGED subnet_zone_lookup
               ELSE /\ subnet_zone_lookup' = GetSubnetZones(cloud_networks)
                    /\ pc' = AtPrune(recordsets', ports', 1)
                    /\ UNCHANGED exc
    /\ UNCHANGED <<helper_call, cloud, dns_recordsets, next_id, run, k, j, log>>

\* one turn of the innermost prune loop: the staleness check of one record
\* and, if it fails, remove_recordset(recordset)
PruneStep ==
    /\ pc = "prune"
    /\ LET recordset == PruneWork(recordsets)[k].recordset
           record    == PruneWork(recordsets)[k].record
       IN  IF RecordPortExists(ports, recordset, record)
           THEN /\ log' = Append(log, CheckEntry(run, recordset, record, "live"))
                /\ k' = k + 1
                /\ pc' = AtPrune(recordsets, ports, k + 1)
                /\ UNCHANGED <<dns_recordsets, exc>>
           ELSE \E outcome \in DeleteOutcomes :
                /\ log' = log \o <<CheckEntry(run, recordset, record, "stale"),
                                   DeleteEntry(run, recordset, record, outcome)>>
                /\ IF outcome = "ok"
                   THEN /\ dns_recordsets' = Deleted(dns_recordsets, recordset.zone_id, recordset.id)
                        /\ k' = k + 1
                        /\ pc' = AtPrune(recordsets, ports, k + 1)
                        /\ UNCHANGED exc
                   ELSE /\ Raise("ClientError")
                        /\ UNCHANGED <<dns_recordsets, k>>
    /\ UNCHANGED <<helper_call, cloud, self, next_id, run, j>>

\* the first half of one turn of the fill loop: the subnet test, and for a
\* mapped subnet forward_record_exists and create_forward_record
FillForward ==
    /\ pc = "fill_A"
    /\ LET port     == FillWork(ports)[j].port
           fixed_ip == FillWork(ports)[j].fixed_ip
           fqdn     == Fqdn(subnet_zone_lookup, port, fixed_ip)
           named    == ZonesNamed(zones, Domain(subnet_zone_lookup, fixed_ip))
       IN  IF fixed_ip.subnet_id \notin DOMAIN subnet_zone_lookup
           THEN /\ j' = j + 1
                /\ pc' = AtFill(ports, j + 1)
                /\ UNCHANGED <<dns_recordsets, next_id, exc, log>>
           ELSE IF ForwardRaisesKeyError(recordsets, subnet_zone_lookup, fixed_ip)
           THEN /\ Raise("KeyError")
                /\ UNCHANGED <<dns_recordsets, next_id, j, log>>
           ELSE IF ForwardRecordExists(recordsets, subnet_zone_lookup, port, fixed_ip)
           THEN /\ pc' = "fill_PTR"
                /\ UNCHANGED <<dns_recordsets, next_id, exc, j, log>>
           ELSE IF named = <<>>
           THEN /\ Raise("IndexError")
                /\ UNCHANGED <<dns_recordsets, next_id, j, log>>
           ELSE LET zone == named[Len(named)]
                IN  \E outcome \in CreateOutcomes(dns_recordsets, zone, fqdn, "A") :
                    /\ log' = Append(log, CreateEntry(run, zone, "A", fqdn,
                                        <<fixed_ip.ip_address>>, outcome, port, j))
                    /\ UNCHANGED j
                    /\ IF outcome = "ok"
                       THEN /\ dns_recordsets' = Created(dns_recordsets, next_id, zone,
                                                         fqdn, "A", <<fixed_ip.ip_address>>)
                            /\ next_id' = next_id + 1
                            /\ pc' = "fill_PTR"
                            /\ UNCHANGED exc
                       ELSE IF outcome = "Conflict"
                       THEN /\ pc' = "fill_PTR"
                            /\ UNCHANGED <<dns_recordsets, next_id, exc>>
                       ELSE /\ Raise("ClientError")
                            /\ UNCHANGED <<dns_recordsets, next_id>>
    /\ UNCHANGED <<helper_call, cloud, self, run, k>>

\* the second half: reverse_record_exists and create_reverse_record
FillReverse ==
    /\ pc = "fill_PTR"
    /\ LET port     == FillWork(ports)[j].port
           fixed_ip == FillWork(ports)[j].fixed_ip
           fqdn     == Fqdn(subnet_zone_lookup, port, fixed_ip)
           arpa     == Arpa(fixed_ip, FALSE)
           named    == ZonesNamed(zones, ArpaDomain(fixed_ip))
       IN  IF ReverseRecordExists(recordsets, subnet_zone_lookup, port, fixed_ip)
           THEN /\ j' = j + 1
                /\ pc' = AtFill(ports, j + 1)
                /\ UNCHANGED <<dns_recordsets, next_id, exc, log>>
           ELSE IF named = <<>>
           THEN /\ Raise("IndexError")
                /\ UNCHANGED <<dns_recordsets, next_id, j, log>>
           ELSE LET zone == named[Len(named)]
                IN  \E outcome \in CreateOutcomes(dns_recordsets, zone, arpa, "PTR") :
                    /\ log' = Append(log, CreateEntry(run, zone, "PTR", arpa,
                                        <<fqdn>>, outcome, port, j))
                    /\ IF outcome = "ok"
                       THEN /\ dns_recordsets' = Created(dns_recordsets, next_id, zone,
                                                         arpa, "PTR", <<fqdn>>)
                            /\ next_id' = next_id + 1
                            /\ j' = j + 1
                            /\ pc' = AtFill(ports, j + 1)
                            /\ UNCHANGED exc
                       ELSE /\ Raise(IF outcome = "Conflict" THEN "ConflictException"
                                                            ELSE "ClientError")
                            /\ UNCHANGED <<dns_recordsets, next_id, j>>
    /\ UNCHANGED <<helper_call, cloud, self, run, k>>

\* main() has returned and is invoked once more: nothing is kept from the
\* first pass, the control plane is as it was, the DNS service as the pass left it
Rerun ==
    /\ pc = "done"
    /\ run = 1
    /\ run' = 2
    /\ pc' = "start"
    /\ ports' = <<>>
    /\ zones' = <<>>
    /\ recordsets' = <<>>
    /\ subnet_zone_lookup' = NoLookup
    /\ k' = 1
    /\ j' = 1
    /\ UNCHANGED <<helper_call, cloud, dns_recordsets, next_id, exc, log>>

Next == Load \/ PruneStep \/ FillForward \/ FillReverse \/ Rerun

Spec == Init /\ [][Next]_vars

(***************************************************************************)
(* The reverse-name helpers called on their own: _arpa on a fixed_ip with  *)
(* a dotted-quad address, then _arpa_to_ip on what it returned.            *)
(***************************************************************************)
Digits == {"0", "2"}

\* the decimal octets of at most MaxOctetLen digits over Digits
Octets ==
    {o \in UNION {[1..n -> Digits] : n \in 1..MaxOctetLen} : Len(o) = 1 \/ o[1] # "0"}

InitArpa ==
    /\ cloud_ports = <<>>
    /\ cloud_networks = Networks(Empty)
    /\ dns_zones = <<>>
    /\ dns_recordsets = <<>>
    /\ next_id = FirstNewId
    /\ ports = <<>>
    /\ zones = <<>>
    /\ recordsets = <<>>
    /\ subnet_zone_lookup = NoLookup
    /\ pc = "start"
    /\ exc = ""
    /\ run = 1
    /\ k = 1
    /\ j = 1
    /\ log = <<>>
    /\ arg_fixed_ip \in {FixedIp(Join(q), "s1") : q \in [1..4 -> Octets]}
    /\ ret_arpa = None
    /\ ret_ip = None

\* ret_arpa = self._arpa(arg_fixed_ip)
CallArpa ==
    /\ ret_arpa = None
    /\ ret_arpa' = Arpa(arg_fixed_ip, FALSE)
    /\ UNCHANGED <<cloud, self, dns_recordsets, next_id, pc, exc, run, k, j, log,
                   arg_fixed_ip, ret_ip>>

\* ret_ip = self._arpa_to_ip(ret_arpa)
CallArpaToIp ==
    /\ ret_arpa # None
    /\ ret_ip = None
    /\ ret_ip' = ArpaToIp(ret_arpa)
    /\ UNCHANGED <<cloud, self, dns_recordsets, next_id, pc, exc, run, k, j, log,
                   arg_fixed_ip, ret_arpa>>

NextArpa == CallArpa \/ CallArpaToIp

SpecArpa == InitArpa /\ [][NextArpa]_vars

(***************************************************************************)
(* Vocabulary of the properties.                                           *)
(***************************************************************************)
\* main() has ended, by returning or by an exception
PassEnded == pc \in {"done", "raised"}

\* main() got past Designator() and ended
PassRan == PassEnded /\ exc # "RuntimeError"

\* the entries of the current pass with the given op
Entries(op) == {i \in 1..Len(log) : log[i].run = run /\ log[i].op = op}

\* the DNS client calls of the current pass
Calls == Entries("create") \cup Entries("delete")

\* s without the trailing suf, if it ends with suf
StripSuffix(s, suf) ==
    IF Len(suf) <= Len(s) /\ SubSeq(s, Len(s) - Len(suf) + 1, Len(s)) = suf
    THEN SubSeq(s, 1, Len(s) - Len(suf))
    ELSE s

\* the recordsets read at load
LoadedRecordsets == {PruneWork(recordsets)[i].recordset : i \in 1..Len(PruneWork(recordsets))}

\* the DNS service holds a recordset of this type and name with this value
Holds(type, name, value) ==
    \E i \in 1..Len(dns_recordsets) :
        /\ dns_recordsets[i].type = type
        /\ dns_recordsets[i].name = name
        /\ In(value, dns_recordsets[i].records)

\* a delete call of the current pass addressed recordset rs
DeleteIssued(rs) ==
    \E i \in Entries("delete") : log[i].zone_id = rs.zone_id /\ log[i].rs = rs.id

\* a create call of the given type was made for the item-th pair of the fill loop
CreateIssued(type, item) ==
    \E i \in Entries("create") : log[i].type = type /\ log[i].item = item

\* the pairs of the fill loop whose subnet maps to a domain that has a zone
\* read at load
Resolvable(item) ==
    /\ FillWork(ports)[item].fixed_ip.subnet_id \in DOMAIN subnet_zone_lookup
    /\ ~ForwardRaisesKeyError(recordsets, subnet_zone_lookup, FillWork(ports)[item].fixed_ip)

\* the recordset a check or delete entry of the log is about
LogRs(i) ==
    [id |-> log[i].rs, zone_id |-> log[i].zone_id, zone_name |-> log[i].zone_name,
     type |-> log[i].type, name |-> log[i].name, records |-> log[i].records]

\* value v of recordset rs matches port and fixed_ip the way the staleness
\* check matches them: for A the owner name without the first "." + zone name
\* is the dns_name and v is the address, for PTR the owner name gives the
\* address and v begins with the dns_name
Matches(rs, v, port, fixed_ip) ==
    \/ /\ rs.type = "A"
       /\ ReplaceFirst(rs.name, Dot \o rs.zone_name) = port.dns_name
       /\ v = fixed_ip.ip_address
    \/ /\ rs.type = "PTR"
       /\ ArpaToIp(rs.name) = fixed_ip.ip_address
       /\ ReMatch(port.dns_name, v)

\* the pairs of the fill loop whose subnet maps to no domain
Unmapped(item) ==
    FillWork(ports)[item].fixed_ip.subnet_id \notin DOMAIN subnet_zone_lookup


(***************************************************************************)
(* C1 Idempotence of a pass: when main() has run to its end and is run     *)
(* again on the unchanged control plane and the DNS state the first pass   *)
(* left, the second pass issues no create_recordset and no                 *)
(* delete_recordset call.                                                  *)
(***************************************************************************)
C1_SecondPassIssuesNoCall ==
    \A i \in 1..Len(log) : log[i].run = 2 => log[i].op = "check"

(***************************************************************************)
(* C2 Convergence in one pass: with an eligible port host1 holding         *)
(* 10.0.0.5 on a subnet mapped to example.com., both zones listed and no   *)
(* DNS client call failing, when main() reaches its end the DNS state      *)
(* holds A host1.example.com. with 10.0.0.5 and PTR 5.0.0.10.in-addr.arpa. *)
(* with host1.example.com., whatever the zones held before.                *)
(***************************************************************************)
C2_Case ==
    /\ pc = "done"
    /\ \E p \in 1..Len(ports) : \E f \in 1..Len(ports[p].fixed_ips) :
          /\ ports[p].dns_name = Host1
          /\ ports[p].fixed_ips[f].ip_address = Ip5
          /\ Domain(subnet_zone_lookup, ports[p].fixed_ips[f]) = ExampleCom
    /\ zones = <<ZoneFwd, ZoneRev>>
    /\ \A i \in Calls : log[i].result = "ok"

C2_ConvergesInOnePass ==
    C2_Case => Holds("A", Host1Fqdn, Ip5) /\ Holds("PTR", Ptr5, Host1Fqdn)

(***************************************************************************)
(* C3 Pruning: every A recordset read at load that has a value V for which *)
(* no eligible port has the dns_name (owner name minus "." + zone name)    *)
(* together with the fixed IP V gets a delete_recordset call in the pass,  *)
(* and is gone from the DNS state at the end of the pass if a call         *)
(* succeeded.                                                              *)
(***************************************************************************)
C3_Unmatched(rs) ==
    /\ rs.type = "A"
    /\ \E v \in 1..Len(rs.records) :
          ~\E p \in 1..Len(ports) :
              /\ ports[p].dns_name = StripSuffix(rs.name, Dot \o rs.zone_name)
              /\ \E f \in 1..Len(ports[p].fixed_ips) :
                     ports[p].fixed_ips[f].ip_address = rs.records[v]

C3_UnmatchedRecordsetIsDeleted ==
    PassRan =>
        \A rs \in LoadedRecordsets :
            C3_Unmatched(rs) =>
                /\ DeleteIssued(rs)
                /\ (\E i \in Entries("delete") :
                        log[i].rs = rs.id /\ log[i].zone_id = rs.zone_id /\ log[i].result = "ok")
                   => ~Present(dns_recordsets, rs.zone_id, rs.id)

(***************************************************************************)
(* C4 Partial failure isolation in prune: when a delete_recordset call     *)
(* raises a client error, the pass still attempts the delete of every      *)
(* other recordset that fails the staleness check and then the create of   *)
(* every missing forward and reverse record.                               *)
(***************************************************************************)
C4_DeleteFailed == \E i \in Entries("delete") : log[i].result = "error"

C4_FailedDeleteDoesNotEndPass ==
    (PassRan /\ C4_DeleteFailed) =>
        /\ \A w \in 1..Len(PruneWork(recordsets)) :
              ~RecordPortExists(ports, PruneWork(recordsets)[w].recordset,
                                PruneWork(recordsets)[w].record)
              => DeleteIssued(PruneWork(recordsets)[w].recordset)
        /\ \A item \in 1..Len(FillWork(ports)) :
              Resolvable(item) =>
                 /\ ~ForwardRecordExists(recordsets, subnet_zone_lookup,
                        FillWork(ports)[item].port, FillWork(ports)[item].fixed_ip)
                    => CreateIssued("A", item)
                 /\ ~ReverseRecordExists(recordsets, subnet_zone_lookup,
                        FillWork(ports)[item].port, FillWork(ports)[item].fixed_ip)
                    => CreateIssued("PTR", item)

(***************************************************************************)
(* C5 Failure isolation in fill: for a (port, fixed IP) pair whose A and   *)
(* PTR records are both missing, a failed create of either record does not *)
(* keep the pass from attempting the other one, nor from attempting the    *)
(* creates of the remaining pairs.                                         *)
(***************************************************************************)
C5_BothMissing(item) ==
    /\ Resolvable(item)
    /\ ~ForwardRecordExists(recordsets, subnet_zone_lookup,
            FillWork(ports)[item].port, FillWork(ports)[item].fixed_ip)
    /\ ~ReverseRecordExists(recordsets, subnet_zone_lookup,
            FillWork(ports)[item].port, FillWork(ports)[item].fixed_ip)

C5_CreateFailed == \E i \in Entries("create") : log[i].result # "ok"

C5_FailedCreateDoesNotSuppressOthers ==
    (PassRan /\ C5_CreateFailed) =>
        \A item \in 1..Len(FillWork(ports)) :
            C5_BothMissing(item) => CreateIssued("A", item) /\ CreateIssued("PTR", item)

(***************************************************************************)
(* C6 Phase ordering: no create_recordset call is issued before every      *)
(* record of every recordset read at load has had its staleness check (and *)
(* its delete attempt where the check failed); and so, when an A recordset *)
(* holds only an old IP for the name of an eligible port that now has      *)
(* another IP, after a pass without client errors the recordset of that    *)
(* name holds the new IP and not the old one.                              *)
(***************************************************************************)
C6_CheckedBefore(w, i) ==
    \E c \in Entries("check") :
        /\ c < i
        /\ log[c].rs = PruneWork(recordsets)[w].recordset.id
        /\ log[c].value = PruneWork(recordsets)[w].record
        /\ log[c].result = "stale" =>
              /\ log[c + 1].op = "delete"
              /\ log[c + 1].rs = log[c].rs
              /\ c + 1 < i

C6_PruneBeforeFill ==
    \A i \in Entries("create") :
        \A w \in 1..Len(PruneWork(recordsets)) : C6_CheckedBefore(w, i)

\* recordset rs holds only an address none of the ports named like port p holds
C6_HoldsOnlyOldIp(rs, p, f) ==
    /\ rs.type = "A"
    /\ rs.name = Fqdn(subnet_zone_lookup, ports[p], ports[p].fixed_ips[f])
    /\ Len(rs.records) = 1
    /\ ~\E q \in 1..Len(ports) :
           /\ ports[q].dns_name = ports[p].dns_name
           /\ \E g \in 1..Len(ports[q].fixed_ips) :
                  ports[q].fixed_ips[g].ip_address = rs.records[1]

C6_OldIpReplaced ==
    (PassRan /\ \A i \in Calls : log[i].result = "ok") =>
        \A p \in 1..Len(ports) : \A f \in 1..Len(ports[p].fixed_ips) :
            \A rs \in LoadedRecordsets :
                (/\ ports[p].fixed_ips[f].subnet_id \in DOMAIN subnet_zone_lookup
                 /\ C6_HoldsOnlyOldIp(rs, p, f))
                => /\ Holds("A", rs.name, ports[p].fixed_ips[f].ip_address)
                   /\ ~Holds("A", rs.name, rs.records[1])

C6_PhaseOrdering == C6_PruneBeforeFill /\ C6_OldIpReplaced

(***************************************************************************)
(* C7 Domain-less subnet, as claimed: for a fixed IP whose subnet is not   *)
(* in subnet_zone_lookup the pass issues no create_recordset call, and no  *)
(* delete_recordset call for a recordset whose name and value match the    *)
(* port's dns_name and that IP.                                            *)
(***************************************************************************)
C7_NoCreateForUnmapped ==
    \A item \in 1..Len(FillWork(ports)) :
        Unmapped(item) => ~CreateIssued("A", item) /\ ~CreateIssued("PTR", item)

C7_DomainlessAsClaimed ==
    /\ C7_NoCreateForUnmapped
    /\ \A item \in 1..Len(FillWork(ports)) :
          Unmapped(item) =>
              \A d \in Entries("delete") :
                  ~\E v \in 1..Len(log[d].records) :
                      Matches(LogRs(d), log[d].records[v],
                              FillWork(ports)[item].port, FillWork(ports)[item].fixed_ip)

(***************************************************************************)
(* C7 as amended: for a fixed IP of an eligible port whose subnet is not   *)
(* in subnet_zone_lookup the pass issues no create_recordset call, and no  *)
(* delete_recordset call is made on account of a recordset value that      *)
(* matches the port's dns_name and that IP: such a value passes the        *)
(* staleness check, and the recordset holding it is deleted only when      *)
(* another of its values fails the check.                                  *)
(***************************************************************************)
C7_DomainlessValueCausesNoCall ==
    /\ C7_NoCreateForUnmapped
    /\ \A item \in 1..Len(FillWork(ports)) :
          Unmapped(item) =>
              \A d \in Entries("delete") :
                  ~Matches(LogRs(d), log[d].value,
                           FillWork(ports)[item].port, FillWork(ports)[item].fixed_ip)

\* a pass has deleted a recordset that holds a value matching a fixed IP on
\* an unmapped subnet, on account of another value, and has gone through the
\* fill loop
C7_Witness ==
    /\ pc = "done"
    /\ \E item \in 1..Len(FillWork(ports)) : \E d \in Entries("delete") :
          /\ Unmapped(item)
          /\ \E v \in 1..Len(log[d].records) :
                 Matches(LogRs(d), log[d].records[v],
                         FillWork(ports)[item].port, FillWork(ports)[item].fixed_ip)

(***************************************************************************)
(* C8 Ineligibility: a port whose dns_name is '' is not in self.ports; no  *)
(* create_recordset call is derived from it, and the staleness check never *)
(* returns true on its account: a value only such a port matches is judged *)
(* stale and its recordset passed to delete_recordset.                     *)
(***************************************************************************)
C8_NamedPortMatches(rs, v) ==
    \E p \in 1..Len(cloud_ports) : \E f \in 1..Len(cloud_ports[p].fixed_ips) :
        /\ cloud_ports[p].dns_name # Empty
        /\ Matches(rs, v, cloud_ports[p], cloud_ports[p].fixed_ips[f])

C8_UnnamedPortMatches(rs, v) ==
    \E p \in 1..Len(cloud_ports) : \E f \in 1..Len(cloud_ports[p].fixed_ips) :
        /\ cloud_ports[p].dns_name = Empty
        /\ Matches(rs, v, cloud_ports[p], cloud_ports[p].fixed_ips[f])

C8_UnnamedPortIsIgnored ==
    /\ \A p \in 1..Len(ports) : ports[p].dns_name # Empty
    /\ \A i \in Entries("create") :
          \E p \in 1..Len(cloud_ports) :
              cloud_ports[p].id = log[i].port /\ cloud_ports[p].dns_name # Empty
    /\ \A c \in Entries("check") :
          /\ log[c].result = "live" => C8_NamedPortMatches(LogRs(c), log[c].value)
          /\ log[c].result = "stale" =>
                /\ c < Len(log)
                /\ log[c + 1].op = "delete"
                /\ log[c + 1].rs = log[c].rs
                /\ log[c + 1].zone_id = log[c].zone_id

\* a value that only a port without dns_name matches was judged stale and
\* its recordset was deleted
C8_Witness ==
    \E c \in Entries("check") :
        /\ C8_UnnamedPortMatches(LogRs(c), log[c].value)
        /\ log[c].result = "stale"
        /\ log[c + 1].op = "delete"
        /\ log[c + 1].result = "ok"
        /\ ~Present(dns_recordsets, log[c].zone_id, log[c].rs)

(***************************************************************************)
(* C9 Matching records are left untouched: a recordset all of whose values *)
(* correspond to an eligible port and fixed IP (an A value is a fixed IP   *)
(* of a port whose dns_name is the owner name minus the zone suffix, a PTR *)
(* value is the FQDN of a port holding the IP of the owner name) is never  *)
(* passed to delete_recordset, and no create_recordset call is issued for  *)
(* a (zone, name, type, value) the DNS state already holds.                *)
(***************************************************************************)
C9_Corresponds(rs, v) ==
    \E p \in 1..Len(ports) : \E f \in 1..Len(ports[p].fixed_ips) :
        \/ /\ rs.type = "A"
           /\ ports[p].dns_name = StripSuffix(rs.name, Dot \o rs.zone_name)
           /\ ports[p].fixed_ips[f].ip_address = v
        \/ /\ rs.type = "PTR"
           /\ ports[p].fixed_ips[f].subnet_id \in DOMAIN subnet_zone_lookup
           /\ rs.name = Arpa(ports[p].fixed_ips[f], FALSE)
           /\ v = Fqdn(subnet_zone_lookup, ports[p], ports[p].fixed_ips[f])

C9_AllCorrespond(rs) == \A v \in 1..Len(rs.records) : C9_Corresponds(rs, rs.records[v])

\* the DNS state held the value of create call i when the call was made: a
\* recordset read at load and not deleted since, or one created since
C9_HeldAtCall(i) ==
    \/ \E rs \in LoadedRecordsets :
           /\ rs.zone_id = log[i].zone_id /\ rs.type = log[i].type /\ rs.name = log[i].name
           /\ In(log[i].value, rs.records)
           /\ ~\E d \in Entries("delete") :
                  d < i /\ log[d].rs = rs.id /\ log[d].zone_id = rs.zone_id /\ log[d].result = "ok"
    \/ \E c \in Entries("create") :
           /\ c < i /\ log[c].result = "ok"
           /\ log[c].zone_id = log[i].zone_id /\ log[c].type = log[i].type
           /\ log[c].name = log[i].name /\ log[c].value = log[i].value

C9_NoDeleteOfMatching == \A d \in Entries("delete") : ~C9_AllCorrespond(LogRs(d))

C9_NoCreateOfHeld == \A i \in Entries("create") : ~C9_HeldAtCall(i)

C9_MatchingRecordsUntouched == C9_NoDeleteOfMatching /\ C9_NoCreateOfHeld

(***************************************************************************)
(* C10 Conflict on create is non-fatal: when create_recordset raises a     *)
(* Conflict, for an A record or for a PTR record, the DNS state is left as *)
(* it was and the pass goes on with the next create instead of ending.     *)
(***************************************************************************)
C10_ConflictDoesNotEndPass ==
    \A i \in Entries("create") :
        log[i].result = "Conflict" =>
            ~(pc = "raised" /\ exc = "ConflictException" /\ i = Len(log))

(***************************************************************************)
(* C11 Missing zone is non-fatal: when an eligible port has a fixed IP on  *)
(* a subnet whose dns_domain names no zone read at load, the pass does not *)
(* end on that account: it takes the domain's recordsets as empty and goes *)
(* on with the other ports and fixed IPs.                                  *)
(***************************************************************************)
C11_MissingZone(item) ==
    /\ FillWork(ports)[item].fixed_ip.subnet_id \in DOMAIN subnet_zone_lookup
    /\ ~HasZone(recordsets, Domain(subnet_zone_lookup, FillWork(ports)[item].fixed_ip))

C11_MissingZoneDoesNotEndPass ==
    PassRan =>
        \A item \in 1..Len(FillWork(ports)) :
            C11_MissingZone(item) => ~(pc = "raised" /\ exc = "KeyError" /\ j = item)

(***************************************************************************)
(* C12 Configuration errors are fatal and come before any mutation: when a *)
(* listed port lacks dns_name or a listed network lacks dns_domain, main() *)
(* gets no further than Designator(): it ends with the RuntimeError, and   *)
(* no create_recordset and no delete_recordset call has been issued.       *)
(***************************************************************************)
C12_PortLacksDnsName ==
    \E i \in 1..Len(cloud_ports) : cloud_ports[i].dns_name = NoAttr

C12_NetworkLacksDnsDomain ==
    \E n \in 1..Len(cloud_networks) : cloud_networks[n].dns_domain = NoAttr

C12_EndsBeforeAnyCall ==
    /\ pc \in {"start", "raised"}
    /\ pc = "raised" => exc = "RuntimeError"
    /\ \A i \in 1..Len(log) : log[i].op \notin {"create", "delete"}

C12_ConfigErrorIsFatal ==
    []((C12_PortLacksDnsName \/ C12_NetworkLacksDnsDomain) => C12_EndsBeforeAnyCall)

\* Designator() has read ports, zones and recordsets, among them a recordset
\* that no port matches, and has ended on a network without dns_domain
C12_Witness ==
    /\ pc = "raised"
    /\ exc = "RuntimeError"
    /\ ~C12_PortLacksDnsName
    /\ C12_NetworkLacksDnsDomain
    /\ ports # <<>>
    /\ \E w \in 1..Len(PruneWork(recordsets)) :
           ~RecordPortExists(ports, PruneWork(recordsets)[w].recordset,
                             PruneWork(recordsets)[w].record)

(***************************************************************************)
(* C13 Only A and PTR recordsets are ever touched: self.recordsets holds   *)
(* only recordsets of type A or PTR; every delete_recordset call of a pass *)
(* addresses, by (zone_id, id), a recordset of type A or PTR read at load; *)
(* and no step of a pass removes or changes a recordset of another type in *)
(* the DNS state.                                                          *)
(***************************************************************************)
C13_WorkingSetIsAOrPtr ==
    \A z \in 1..Len(recordsets) : \A r \in 1..Len(recordsets[z].rsets) :
        recordsets[z].rsets[r].type \in {"A", "PTR"}

C13_DeletesAddressLoaded ==
    \A d \in Entries("delete") :
        \E z \in 1..Len(recordsets) : \E r \in 1..Len(recordsets[z].rsets) :
            /\ recordsets[z].rsets[r].zone_id = log[d].zone_id
            /\ recordsets[z].rsets[r].id = log[d].rs
            /\ recordsets[z].rsets[r].type \in {"A", "PTR"}

C13_OtherTypesStay ==
    \A i \in 1..Len(dns_recordsets) :
        dns_recordsets[i].type \notin {"A", "PTR"} => In(dns_recordsets[i], dns_recordsets')

C13_OnlyAAndPtrTouched ==
    /\ [](C13_WorkingSetIsAOrPtr /\ C13_DeletesAddressLoaded)
    /\ [][C13_OtherTypesStay]_vars

\* a pass has deleted a recordset of a zone that also holds an NS recordset,
\* and has come to its end
C13_Witness ==
    /\ pc = "done"
    /\ \E d \in Entries("delete") :
          /\ log[d].result = "ok"
          /\ \E i \in 1..Len(dns_recordsets) :
                 /\ dns_recordsets[i].type = "NS"
                 /\ dns_recordsets[i].zone_id = log[d].zone_id

(***************************************************************************)
(* C14 Round trip of the reverse derivation: for every dotted-quad IPv4    *)
(* address ip, _arpa_to_ip(_arpa({ip_address: ip})) is ip again.           *)
(***************************************************************************)
C14_ArpaRoundTrip ==
    ret_ip # None => ret_ip = arg_fixed_ip.ip_address

\* both helpers have been called on an address of four different octets,
\* one of them of more than one digit
C14_Witness ==
    /\ ret_ip # None
    /\ LET parts == Split(arg_fixed_ip.ip_address)
       IN  /\ Len(parts) = 4
           /\ \A a, b \in 1..4 : a # b => parts[a] # parts[b]
           /\ \E a \in 1..4 : Len(parts[a]) > 1
    /\ ret_arpa = Reverse(Split(arg_fixed_ip.ip_address))[1] \o Dot
                  \o Join(Tail(Reverse(Split(arg_fixed_ip.ip_address))))
                  \o <<".","i","n","-","a","d","d","r",".","a","r","p","a",".">>

(***************************************************************************)
(* C15 PTR staleness check: for a PTR recordset and one of its values T    *)
(* the staleness check returns true iff some eligible port has a fixed IP  *)
(* equal to the IP recovered from the owner name and T equals that port's  *)
(* forward FQDN, dns_name + "." + the domain of that fixed IP; a value     *)
(* that only begins with the dns_name is judged stale.                     *)
(***************************************************************************)
C15_FqdnOfPortAtIp(rs, v) ==
    \E p \in 1..Len(ports) : \E f \in 1..Len(ports[p].fixed_ips) :
        /\ ports[p].fixed_ips[f].ip_address = ArpaToIp(rs.name)
        /\ ports[p].fixed_ips[f].subnet_id \in DOMAIN subnet_zone_lookup
        /\ v = Fqdn(subnet_zone_lookup, ports[p], ports[p].fixed_ips[f])

\* every eligible port that holds the IP recovered from the owner name holds
\* it on a subnet mapped to a domain, so that it has a forward FQDN
C15_HoldersHaveFqdn(rs) ==
    \A p \in 1..Len(ports) : \A f \in 1..Len(ports[p].fixed_ips) :
        ports[p].fixed_ips[f].ip_address = ArpaToIp(rs.name)
        => ports[p].fixed_ips[f].subnet_id \in DOMAIN subnet_zone_lookup

C15_PtrStalenessIsExact ==
    \A c \in Entries("check") :
        (log[c].type = "PTR" /\ C15_HoldersHaveFqdn(LogRs(c))) =>
            (log[c].result = "live" <=> C15_FqdnOfPortAtIp(LogRs(c), log[c].value))

(***************************************************************************)
(* C16 A staleness check: for an A recordset with owner name N, zone name  *)
(* Z and one of its values V the staleness check returns true iff some     *)
(* eligible port has the dns_name N without its trailing "." + Z and a     *)
(* fixed IP whose address is V.                                            *)
(***************************************************************************)
C16_PortOfNameAtIp(rs, v) ==
    \E p \in 1..Len(ports) :
        /\ ports[p].dns_name = StripSuffix(rs.name, Dot \o rs.zone_name)
        /\ \E f \in 1..Len(ports[p].fixed_ips) : ports[p].fixed_ips[f].ip_address = v

C16_AStalenessStripsTrailingZone ==
    \A c \in Entries("check") :
        log[c].type = "A" =>
            (log[c].result = "live" <=> C16_PortOfNameAtIp(LogRs(c), log[c].value))

(***************************************************************************)
(* C17 Fill completeness: in a pass that runs to its end, for every        *)
(* eligible port and every one of its fixed IPs whose subnet maps to a     *)
(* domain, an A create_recordset call is issued when no A recordset read   *)
(* at load has the forward name and holds the IP, and a PTR call when no   *)
(* PTR recordset read at load has the reverse name and holds the FQDN, be  *)
(* the /24 reverse zone empty or not among the listed zones.               *)
(***************************************************************************)
C17_LoadedHolds(type, name, value) ==
    \E rs \in LoadedRecordsets :
        rs.type = type /\ rs.name = name /\ In(value, rs.records)

C17_FillIsComplete ==
    pc = "done" =>
        \A item \in 1..Len(FillWork(ports)) :
            LET port     == FillWork(ports)[item].port
                fixed_ip == FillWork(ports)[item].fixed_ip
                fqdn     == Fqdn(subnet_zone_lookup, port, fixed_ip)
            IN  fixed_ip.subnet_id \in DOMAIN subnet_zone_lookup =>
                    /\ ~C17_LoadedHolds("A", fqdn, fixed_ip.ip_address)
                       => CreateIssued("A", item)
                    /\ ~C17_LoadedHolds("PTR", Arpa(fixed_ip, FALSE), fqdn)
                       => CreateIssued("PTR", item)

(***************************************************************************)
(* C18 as claimed: the staleness check never returns true on the strength  *)
(* of a fixed IP whose subnet is not mapped to a domain: whenever it       *)
(* returns true for a recordset value, an eligible port has a matching     *)
(* fixed IP whose subnet_id is in subnet_zone_lookup.                      *)
(***************************************************************************)
C18_MatchedBy(rs, v, mapped) ==
    \E p \in 1..Len(ports) : \E f \in 1..Len(ports[p].fixed_ips) :
        /\ Matches(rs, v, ports[p], ports[p].fixed_ips[f])
        /\ (ports[p].fixed_ips[f].subnet_id \in DOMAIN subnet_zone_lookup) = mapped

C18_UnmappedIpExcludedAsClaimed ==
    \A c \in Entries("check") :
        log[c].result = "live" => C18_MatchedBy(LogRs(c), log[c].value, TRUE)

(***************************************************************************)
(* C18 as amended: the staleness check does not consult                    *)
(* subnet_zone_lookup: it returns true for a recordset value iff some      *)
(* eligible port has a matching fixed IP, be its subnet mapped to a domain *)
(* or not; a value that only a fixed IP on an unmapped subnet matches is   *)
(* judged live.                                                            *)
(***************************************************************************)
\* some eligible port has a fixed IP that value v of recordset rs matches,
\* on whatever subnet
C18_Matched(rs, v) ==
    LET dns_name  == ReplaceFirst(rs.name, Dot \o rs.zone_name)
        record_ip == ArpaToIp(rs.name)
    IN  \E p \in 1..Len(ports) : \E f \in 1..Len(ports[p].fixed_ips) :
            \/ /\ rs.type = "A"
               /\ v = ports[p].fixed_ips[f].ip_address
               /\ dns_name = ports[p].dns_name
            \/ /\ rs.type = "PTR"
               /\ record_ip = ports[p].fixed_ips[f].ip_address
               /\ ReMatch(ports[p].dns_name, v)

C18_StalenessIgnoresSubnetMapping ==
    [](\A c \in Entries("check") :
           log[c].result = "live" <=> C18_Matched(LogRs(c), log[c].value))

\* a value that only a fixed IP on an unmapped subnet matches has been
\* judged live, and the pass has ended with its recordset in place
C18_Witness ==
    /\ pc = "done"
    /\ \E c \in Entries("check") :
          /\ log[c].result = "live"
          /\ C18_MatchedBy(LogRs(c), log[c].value, FALSE)
          /\ ~C18_MatchedBy(LogRs(c), log[c].value, TRUE)
          /\ Present(dns_recordsets, log[c].zone_id, log[c].rs)

(***************************************************************************)
(* C19 At most one delete per recordset per pass: whatever the number of   *)
(* values of a recordset that fail the staleness check, the prune loop     *)
(* calls delete_recordset for that recordset at most once, so that no      *)
(* delete is issued for a recordset the same pass has already deleted.     *)
(***************************************************************************)
C19_AtMostOneDeletePerRecordset ==
    \A d, e \in Entries("delete") :
        (log[d].zone_id = log[e].zone_id /\ log[d].rs = log[e].rs) => d = e

(***************************************************************************)
(* C20 Fill decides on the load-time snapshot only: self.recordsets,       *)
(* self.zones, self.ports and self.subnet_zone_lookup do not change from   *)
(* the end of __init__ to the end of main(); a create_recordset call is    *)
(* issued for a (port, fixed IP) pair exactly when the snapshot lacks the  *)
(* record, whatever prune deleted; so a desired A or PTR value held by a   *)
(* recordset that prune deleted gets no create call in that pass.          *)
(***************************************************************************)
C20_SnapshotIsKept ==
    pc \in {"prune", "fill_A", "fill_PTR"} => UNCHANGED self

\* the fill loop is past forward_record_exists (past reverse_record_exists)
\* of the item-th pair
C20_ForwardDecided(item) == item < j \/ (item = j /\ pc = "fill_PTR") \/ pc = "done"

C20_ReverseDecided(item) == item < j \/ pc = "done"

C20_CreatesFollowSnapshot ==
    /\ \A i \in Entries("create") :
          LET port     == FillWork(ports)[log[i].item].port
              fixed_ip == FillWork(ports)[log[i].item].fixed_ip
          IN  /\ Resolvable(log[i].item)
              /\ log[i].type = "A" =>
                     ~ForwardRecordExists(recordsets, subnet_zone_lookup, port, fixed_ip)
              /\ log[i].type = "PTR" =>
                     ~ReverseRecordExists(recordsets, subnet_zone_lookup, port, fixed_ip)
    /\ pc \in {"fill_A", "fill_PTR", "done", "raised"} =>
          \A item \in 1..Len(FillWork(ports)) :
              LET port     == FillWork(ports)[item].port
                  fixed_ip == FillWork(ports)[item].fixed_ip
              IN  /\ (C20_ForwardDecided(item) /\ Resolvable(item)
                      /\ ~ForwardRecordExists(recordsets, subnet_zone_lookup, port, fixed_ip))
                     => CreateIssued("A", item)
                  /\ (C20_ReverseDecided(item) /\ Resolvable(item)
                      /\ ~ReverseRecordExists(recordsets, subnet_zone_lookup, port, fixed_ip))
                     => CreateIssued("PTR", item)

\* recordset rs, read at load, held the value of the given type the item-th
\* pair asks for, and a delete call of this pass has removed it
C20_HeldByDeleted(rs, type, item) ==
    LET port     == FillWork(ports)[item].port
        fixed_ip == FillWork(ports)[item].fixed_ip
        fqdn     == Fqdn(subnet_zone_lookup, port, fixed_ip)
    IN  /\ fixed_ip.subnet_id \in DOMAIN subnet_zone_lookup
        /\ rs.type = type
        /\ \/ type = "A" /\ rs.name = fqdn /\ In(fixed_ip.ip_address, rs.records)
           \/ type = "PTR" /\ rs.name = Arpa(fixed_ip, FALSE) /\ In(fqdn, rs.records)
        /\ \E d \in Entries("delete") :
               log[d].zone_id = rs.zone_id /\ log[d].rs = rs.id /\ log[d].result = "ok"

\* no create call is for a value that a recordset of that zone, type and name
\* held when a delete call of this pass removed it
C20_NoCreateForDeletedValue ==
    \A d \in Entries("delete") : \A i \in Entries("create") :
        log[d].result = "ok" =>
            ~(/\ log[d].zone_id = log[i].zone_id
              /\ log[d].type = log[i].type
              /\ log[d].name = log[i].name
              /\ In(log[i].value, log[d].records))

C20_FillDecidesOnSnapshot ==
    /\ [][C20_SnapshotIsKept]_vars
    /\ [](C20_CreatesFollowSnapshot /\ C20_NoCreateForDeletedValue)

\* prune has deleted a recordset that held a desired A value next to a stale
\* one, the pass has run to its end without a create call for that value, and
\* the DNS state no longer holds it
C20_Witness ==
    /\ pc = "done"
    /\ \E item \in 1..Len(FillWork(ports)) : \E rs \in LoadedRecordsets :
          /\ C20_HeldByDeleted(rs, "A", item)
          /\ ~CreateIssued("A", item)
          /\ ~Holds("A", rs.name, FillWork(ports)[item].fixed_ip.ip_address)

=============================================================================
